---- MODULE Spec2Model ----
(***************************************************************************)
(* Model of the apartments listing store                                   *)
(* (src/entities/apartment/model/store.ts).                                *)
(*                                                                         *)
(* The store is a single-threaded state machine.  fetchApartments and      *)
(* loadMore suspend at one await each; every other action runs to          *)
(* completion.  A suspended call is a unit of the counters fetchPending    *)
(* and loadPending (a suspended call holds no local state of its own).     *)
(*                                                                         *)
(* The module also models one wrapper made by debounce                     *)
(* (src/shareds/lib/debounce/index.ts) with its timers and a clock.        *)
(***************************************************************************)
EXTENDS Integers, Sequences, FiniteSets, TLC

VARIABLES
    allApartments,        \* ref<apartmentsItem[]>, store.ts:43
    displayedApartments,  \* store.ts:44
    filteredApartments,   \* store.ts:45
    currentPage,          \* store.ts:46
    isLoading,            \* store.ts:48
    error,                \* store.ts:49   "null" | "FetchError" | "TypeError"
    sortBy,               \* store.ts:50
    hasInitialized,       \* store.ts:51
    rooms,                \* store.ts:53   room value -> active flag
    filters,              \* store.ts:80
    storage,              \* localStorage slot "apartments-filters"
    fetchPending,         \* fetchApartments calls suspended at store.ts:202
    loadPending,          \* loadMore calls suspended at store.ts:221
    getApartmentsCalls,   \* invocations of the fetch collaborator
    populated,            \* assignments to allApartments at store.ts:203
    saved,                \* saveFilters has run at least once
    run,                  \* loadMore calls completed one after another since
                          \* the last successful fetch; -1 outside such a run
    lastOp,               \* the kind of step that produced this state
    clock,                \* the time, in units of which wait is a multiple
    timeout,              \* debounce/index.ts:5   0 for null, else a timer id
    timers,               \* the callbacks setTimeout holds: id, due, args
    callLog,              \* the time of every call of the wrapper, in order
    invocations           \* the time and arguments of every call of func

vars == <<allApartments, displayedApartments, filteredApartments, currentPage,
          isLoading, error, sortBy, hasInitialized, rooms, filters, storage,
          fetchPending, loadPending, getApartmentsCalls, populated, saved,
          run, lastOp, clock, timeout, timers, callLog, invocations>>

\* The state of the store proper and of the persisted slot.
storeVars == <<allApartments, displayedApartments, filteredApartments,
               currentPage, isLoading, error, sortBy, hasInitialized, rooms,
               filters, storage>>

\* The state of the debounced wrapper and of its environment.
debounceVars == <<clock, timeout, timers, callLog, invocations>>

----------------------------------------------------------------------------
\* Bounds of the model.
MaxFetch == 2      \* invocations of the fetch collaborator in one behaviour
MaxPending == 2    \* loadMore calls suspended at the same time
MaxRun == 3        \* length of a counted run of loadMore calls
MaxLen == 3        \* length of the input sequences of the pure functions
MaxCalls == 3      \* calls of the debounced wrapper in one behaviour
MaxClock == 8      \* the last instant of the clock

\* The wait given to debounce, debounce/index.ts:3.
wait == 3

\* Program constants.
DEFAULT_PRICE_MIN == 5500000
DEFAULT_PRICE_MAX == 18900000
DEFAULT_SQUARE_MIN == 33
DEFAULT_SQUARE_MAX == 123
ITEMS_PER_PAGE == 5

Min(a, b) == IF a <= b THEN a ELSE b

SortOptions == {"price_asc", "price_desc", "square_asc", "square_desc",
                "floor_asc", "floor_desc", "default"}

----------------------------------------------------------------------------
\* Titles are sequences of tokens: decimal digits, the substring
\* "-komnatnaya" (the room marker of the regular expression) and other words.
RoomMarker == "-komnatnaya"
Digits == {"0", "1", "2", "3", "4", "5", "6", "7", "8", "9"}
DigitValue ==
    "0" :> 0 @@ "1" :> 1 @@ "2" :> 2 @@ "3" :> 3 @@ "4" :> 4 @@
    "5" :> 5 @@ "6" :> 6 @@ "7" :> 7 @@ "8" :> 8 @@ "9" :> 9

\* title.match(/(\d+)-komnatnaya/) scanned from the left.  digits is the value
\* (parseInt, base 10) of the run of digits that ends before position i, or -1
\* when no digit precedes i.  The leftmost match is the first run of digits
\* that the marker follows, and the group captures the whole run.
RECURSIVE matchRooms(_, _, _)
matchRooms(title, i, digits) ==
    IF i > Len(title) THEN -1
    ELSE IF title[i] \in Digits
    THEN matchRooms(title, i + 1,
                    10 * (IF digits < 0 THEN 0 ELSE digits)
                        + DigitValue[title[i]])
    ELSE IF title[i] = RoomMarker /\ digits >= 0 THEN digits
    ELSE matchRooms(title, i + 1, -1)

extractRoomsCount(title) ==
    LET match == matchRooms(title, 1, -1)
    IN  IF match >= 0 THEN match ELSE 0

----------------------------------------------------------------------------
Apt(id, title, price, square, floor) ==
    [id |-> id, title |-> title, price |-> price, square |-> square,
     floor |-> floor]

\* The dataset the fetch collaborator answers with: twelve apartments, all of
\* them inside the default ranges, with ties in every sort key.
Data12 ==
    << Apt(1,  <<"1", RoomMarker>>,                5600000,  35,  2),
       Apt(2,  <<"2", RoomMarker>>,                7500000,  55,  5),
       Apt(3,  <<"3", RoomMarker>>,                12000000, 85,  9),
       Apt(4,  <<"studio">>,                       5500000,  33,  1),
       Apt(5,  <<"flat", "2", RoomMarker>>,        7500000,  60,  5),
       Apt(6,  <<"1", RoomMarker, "flat">>,        6000000,  40,  3),
       Apt(7,  <<"3", RoomMarker>>,                18900000, 123, 12),
       Apt(8,  <<"2", RoomMarker>>,                9000000,  80,  2),
       Apt(9,  <<"1", "0", "floor", "3", RoomMarker>>, 12000000, 85, 10),
       Apt(10, <<"2", "flat">>,                    6000000,  40,  3),
       Apt(11, <<"1", "2", RoomMarker>>,           15000000, 110, 7),
       Apt(12, <<"2", RoomMarker>>,                8000000,  55,  9) >>

Datasets == {<<>>, Data12}

----------------------------------------------------------------------------
\* FilterState.  A property whose value is undefined (a restored payload may
\* lack it) is named in undef and holds the placeholder <<>>.
FilterFields == {"rooms", "priceRange", "squareRange"}

Filter(r, p, s) ==
    [rooms |-> r, priceRange |-> p, squareRange |-> s, undef |-> {}]

DefaultFilters ==
    Filter(<<>>, <<DEFAULT_PRICE_MIN, DEFAULT_PRICE_MAX>>,
           <<DEFAULT_SQUARE_MIN, DEFAULT_SQUARE_MAX>>)

Includes(seq, x) == \E i \in 1..Len(seq) : seq[i] = x

\* PassesFilter with the lower price bound exclusive.
PassesFilter_exclusiveMin(a, F) ==
    IF "rooms" \in F.undef THEN "throw"
    ELSE IF Len(F.rooms) > 0 /\ ~Includes(F.rooms, extractRoomsCount(a.title))
    THEN "false"
    ELSE IF "priceRange" \in F.undef THEN "throw"
    ELSE IF a.price <= F.priceRange[1] \/ a.price > F.priceRange[2]
    THEN "false"
    ELSE IF "squareRange" \in F.undef THEN "throw"
    ELSE IF a.square < F.squareRange[1] \/ a.square > F.squareRange[2]
    THEN "false"
    ELSE "true"

\* The callback of apartments.filter for one apartment: "true", "false", or
\* "throw" when it reads a property of undefined.
PassesFilter(a, F) ==
    IF "rooms" \in F.undef THEN "throw"
    ELSE IF Len(F.rooms) > 0 /\ ~Includes(F.rooms, extractRoomsCount(a.title))
    THEN "false"
    ELSE IF "priceRange" \in F.undef THEN "throw"
    ELSE IF a.price < F.priceRange[1] \/ a.price > F.priceRange[2]
    THEN "false"
    ELSE IF "squareRange" \in F.undef THEN "throw"
    ELSE IF a.square < F.squareRange[1] \/ a.square > F.squareRange[2]
    THEN "false"
    ELSE "true"

filterThrows(apartments, F) ==
    \E i \in 1..Len(apartments) : PassesFilter(apartments[i], F) = "throw"

RECURSIVE filterFrom(_, _, _)
filterFrom(apartments, F, i) ==
    IF i > Len(apartments) THEN <<>>
    ELSE IF PassesFilter(apartments[i], F) = "true"
    THEN <<apartments[i]>> \o filterFrom(apartments, F, i + 1)
    ELSE filterFrom(apartments, F, i + 1)

filterApartments(apartments, F) == filterFrom(apartments, F, 1)

----------------------------------------------------------------------------
\* sortMapper: the comparator of each sort option.
sortMapper(option, a, b) ==
    CASE option = "default"     -> 0
      [] option = "price_asc"   -> a.price - b.price
      [] option = "price_desc"  -> b.price - a.price
      [] option = "square_asc"  -> a.square - b.square
      [] option = "square_desc" -> b.square - a.square
      [] option = "floor_asc"   -> a.floor - b.floor
      [] option = "floor_desc"  -> b.floor - a.floor

\* insertSorted that puts x before the elements it compares equal to.
RECURSIVE insertSorted_unstable(_, _, _)
insertSorted_unstable(sorted, x, option) ==
    IF sorted = <<>> THEN <<x>>
    ELSE IF sortMapper(option, sorted[Len(sorted)], x) < 0
    THEN Append(sorted, x)
    ELSE Append(insertSorted_unstable(SubSeq(sorted, 1, Len(sorted) - 1), x,
                                      option),
                sorted[Len(sorted)])

\* Array.prototype.sort is a stable sort (ECMAScript 2019): x goes after
\* every element that does not compare greater than it.
RECURSIVE insertSorted(_, _, _)
insertSorted(sorted, x, option) ==
    IF sorted = <<>> THEN <<x>>
    ELSE IF sortMapper(option, sorted[Len(sorted)], x) <= 0
    THEN Append(sorted, x)
    ELSE Append(insertSorted(SubSeq(sorted, 1, Len(sorted) - 1), x, option),
                sorted[Len(sorted)])

RECURSIVE arraySort(_, _, _)
arraySort(apartments, option, n) ==
    IF n = 0 THEN <<>>
    ELSE insertSorted(arraySort(apartments, option, n - 1), apartments[n],
                      option)

sortApartments(apartments, sortOption) ==
    IF sortOption = "default" THEN apartments
    ELSE arraySort(apartments, sortOption, Len(apartments))

\* Array.prototype.slice(0, end).
slice(seq, end) == SubSeq(seq, 1, Min(end, Len(seq)))

hasMoreItems == Len(displayedApartments) < Len(filteredApartments)

\* Math.ceil(filteredApartments.length / itemsPerPage), store.ts:107-109.
totalPages == (Len(filteredApartments) + ITEMS_PER_PAGE - 1) \div ITEMS_PER_PAGE

\* store.ts:120-122.
hasNoData == ~isLoading /\ Len(allApartments) = 0

----------------------------------------------------------------------------
\* The persisted slot.  getItem answers null (kind "null") or a string: the
\* empty string, a text JSON.parse rejects ("garbage"), or the JSON text of an
\* object.  The text of an object lists the keys it holds (keys, and fkeys for
\* the nested filters object); a key it does not hold has a placeholder value.
SlotText(kind, keys, fkeys, F, s) ==
    [kind |-> kind, keys |-> keys, fkeys |-> fkeys,
     rooms |-> IF "rooms" \in fkeys THEN F.rooms ELSE <<>>,
     priceRange |-> IF "priceRange" \in fkeys THEN F.priceRange ELSE <<>>,
     squareRange |-> IF "squareRange" \in fkeys THEN F.squareRange ELSE <<>>,
     sortBy |-> IF "sortBy" \in keys THEN s ELSE "default"]

SlotNull == SlotText("null", {}, {}, DefaultFilters, "default")
SlotEmpty == SlotText("empty", {}, {}, DefaultFilters, "default")
SlotGarbage == SlotText("garbage", {}, {}, DefaultFilters, "default")

\* JSON.stringify({ filters, sortBy }): a property whose value is undefined
\* is left out of the text.
JSONstringify(F, s) ==
    SlotText("object", {"filters", "sortBy"}, FilterFields \ F.undef, F, s)

\* JSON.parse(saved).filters, when the text holds that key: a key the text
\* lacks reads as undefined.
parsedFilters(text) ==
    [rooms |-> text.rooms, priceRange |-> text.priceRange,
     squareRange |-> text.squareRange, undef |-> FilterFields \ text.fkeys]

\* initPersistedState, store.ts:86-101, as the values it leaves in filters,
\* sortBy and rooms.
restores(text) == text.kind = "object"

restoredFilters(text, F) ==
    IF restores(text) /\ "filters" \in text.keys THEN parsedFilters(text)
    ELSE F

restoredSortBy(text, s) ==
    IF restores(text)
    THEN (IF "sortBy" \in text.keys THEN text.sortBy ELSE "default")
    ELSE s

RoomValues == 1..4

\* rooms.forEach throws on its first element when filters.rooms is undefined;
\* the catch block swallows it and no flag has changed.
restoredRooms(text, F, flags) ==
    IF restores(text) /\ "rooms" \notin restoredFilters(text, F).undef
    THEN [v \in RoomValues |-> Includes(restoredFilters(text, F).rooms, v)]
    ELSE flags

----------------------------------------------------------------------------
\* Inputs of the actions.
PricePayload == <<6000000, 9000000>>
SquarePayload == <<40, 80>>
RoomsPayload == <<2, 3>>
PayloadFilters == Filter(RoomsPayload, PricePayload, SquarePayload)

RoomsInputs == {<<>>, RoomsPayload}
PriceInputs == {<<DEFAULT_PRICE_MIN, DEFAULT_PRICE_MAX>>, PricePayload}
SquareInputs == {<<DEFAULT_SQUARE_MIN, DEFAULT_SQUARE_MAX>>, SquarePayload}
SortInputs == {"default", "price_asc"}

\* What the slot may hold when the session starts: nothing, an empty or an
\* unparsable string, or an object that lacks any of its keys.
InitialSlots ==
    {SlotNull, SlotEmpty, SlotGarbage,
     SlotText("object", {}, {}, PayloadFilters, "price_asc"),
     SlotText("object", {"sortBy"}, {}, PayloadFilters, "price_asc"),
     SlotText("object", {"filters"}, FilterFields, PayloadFilters,
              "price_asc")} \cup
    {SlotText("object", {"filters", "sortBy"}, FilterFields \ lacks,
              PayloadFilters, "price_asc") :
        lacks \in {{}, {"rooms"}, {"priceRange"}, {"squareRange"},
                   FilterFields}}

WellFormed(text) ==
    /\ text.kind = "object"
    /\ text.keys = {"filters", "sortBy"}
    /\ text.fkeys = FilterFields

InitialRooms == [v \in RoomValues |-> v = 2]

\* The wrapper as debounce returns it, debounce/index.ts:5, at time 0.
debounceInit ==
    /\ clock = 0
    /\ timeout = 0
    /\ timers = {}
    /\ callLog = <<>>
    /\ invocations = <<>>

Init ==
    /\ allApartments = <<>>
    /\ displayedApartments = <<>>
    /\ filteredApartments = <<>>
    /\ currentPage = 1
    /\ isLoading = FALSE
    /\ error = "null"
    /\ sortBy = "default"
    /\ hasInitialized = FALSE
    /\ rooms = InitialRooms
    /\ filters = DefaultFilters
    /\ storage \in InitialSlots
    /\ fetchPending = 0
    /\ loadPending = 0
    /\ getApartmentsCalls = 0
    /\ populated = 0
    /\ saved = FALSE
    /\ run = -1
    /\ lastOp = "init"
    /\ debounceInit

----------------------------------------------------------------------------
\* applyFiltersAndSort, store.ts:181-193, on the new values of allApartments,
\* filters and sortBy.  It throws when the filter callback does.
applyThrows == Len(allApartments') > 0 /\ filterThrows(allApartments', filters')

\* applyFiltersAndSort that advances the page instead of restarting at 1.
applyFiltersAndSort_advancesPage ==
    IF Len(allApartments') = 0 \/ applyThrows
    THEN UNCHANGED <<filteredApartments, currentPage, displayedApartments>>
    ELSE /\ filteredApartments' =
                sortApartments(filterApartments(allApartments', filters'),
                               sortBy')
         /\ currentPage' = currentPage + 1
         /\ displayedApartments' =
                slice(filteredApartments', currentPage' * ITEMS_PER_PAGE)

applyFiltersAndSort ==
    IF Len(allApartments') = 0 \/ applyThrows
    THEN UNCHANGED <<filteredApartments, currentPage, displayedApartments>>
    ELSE /\ filteredApartments' =
                sortApartments(filterApartments(allApartments', filters'),
                               sortBy')
         /\ currentPage' = 1
         /\ displayedApartments' = slice(filteredApartments', ITEMS_PER_PAGE)

\* saveFilters, store.ts:125-130.
saveFilters ==
    /\ storage' = JSONstringify(filters', sortBy')
    /\ saved' = TRUE

\* The tail of every mutator: recompute, then persist.  An exception of the
\* recompute leaves the mutator before saveFilters.
recomputeAndSave ==
    /\ applyFiltersAndSort
    /\ IF applyThrows
       THEN /\ UNCHANGED <<storage, saved>>
            /\ lastOp' = "mutator:threw"
       ELSE /\ saveFilters
            /\ lastOp' = "mutator"

calls == <<fetchPending, loadPending, getApartmentsCalls, populated>>

----------------------------------------------------------------------------
\* fetchApartments, store.ts:195-213.
FetchSkip ==
    /\ Len(allApartments) > 0
    /\ lastOp' = "fetchApartments:skip"
    /\ run' = -1
    /\ UNCHANGED <<storeVars, calls, saved>>
    /\ UNCHANGED debounceVars

\* FetchStart without the guard on allApartments.
FetchStart_noGuard ==
    /\ getApartmentsCalls < MaxFetch
    /\ isLoading' = TRUE
    /\ error' = "null"
    /\ getApartmentsCalls' = getApartmentsCalls + 1
    /\ fetchPending' = fetchPending + 1
    /\ lastOp' = "fetchApartments:await"
    /\ run' = -1
    /\ UNCHANGED <<allApartments, displayedApartments, filteredApartments,
                   currentPage, sortBy, hasInitialized, rooms, filters,
                   storage, loadPending, populated, saved>>
    /\ UNCHANGED debounceVars

FetchStart ==
    /\ ~(Len(allApartments) > 0)
    /\ getApartmentsCalls < MaxFetch
    /\ isLoading' = TRUE
    /\ error' = "null"
    /\ getApartmentsCalls' = getApartmentsCalls + 1
    /\ fetchPending' = fetchPending + 1
    /\ lastOp' = "fetchApartments:await"
    /\ run' = -1
    /\ UNCHANGED <<allApartments, displayedApartments, filteredApartments,
                   currentPage, sortBy, hasInitialized, rooms, filters,
                   storage, loadPending, populated, saved>>
    /\ UNCHANGED debounceVars

FetchResolve(data) ==
    /\ fetchPending > 0
    /\ fetchPending' = fetchPending - 1
    /\ allApartments' = data
    /\ populated' = populated + 1
    /\ hasInitialized' = TRUE
    /\ filters' = restoredFilters(storage, filters)
    /\ sortBy' = restoredSortBy(storage, sortBy)
    /\ rooms' = restoredRooms(storage, filters, rooms)
    /\ applyFiltersAndSort
    /\ error' = IF applyThrows THEN "TypeError" ELSE error
    /\ isLoading' = FALSE
    /\ lastOp' = IF applyThrows THEN "fetchApartments:threw"
                 ELSE "fetchApartments:ok"
    /\ run' = IF ~applyThrows /\ fetchPending' = 0 /\ loadPending = 0
              THEN 0 ELSE -1
    /\ UNCHANGED <<storage, loadPending, getApartmentsCalls, saved>>
    /\ UNCHANGED debounceVars

\* FetchReject without the finally block that clears isLoading.
FetchReject_noFinally ==
    /\ fetchPending > 0
    /\ fetchPending' = fetchPending - 1
    /\ error' = "FetchError"
    /\ lastOp' = "fetchApartments:rejected"
    /\ run' = -1
    /\ UNCHANGED <<allApartments, displayedApartments, filteredApartments,
                   currentPage, isLoading, sortBy, hasInitialized, rooms,
                   filters, storage, loadPending, getApartmentsCalls,
                   populated, saved>>
    /\ UNCHANGED debounceVars

FetchReject ==
    /\ fetchPending > 0
    /\ fetchPending' = fetchPending - 1
    /\ error' = "FetchError"
    /\ isLoading' = FALSE
    /\ lastOp' = "fetchApartments:rejected"
    /\ run' = -1
    /\ UNCHANGED <<allApartments, displayedApartments, filteredApartments,
                   currentPage, sortBy, hasInitialized, rooms, filters,
                   storage, loadPending, getApartmentsCalls, populated, saved>>
    /\ UNCHANGED debounceVars

\* loadMore, store.ts:215-237.
LoadMoreSkip ==
    /\ ~hasMoreItems \/ isLoading
    /\ lastOp' = "loadMore"
    /\ run' = IF ~isLoading /\ run >= 0 /\ run < MaxRun THEN run + 1 ELSE -1
    /\ UNCHANGED <<storeVars, calls, saved>>
    /\ UNCHANGED debounceVars

LoadMoreStart ==
    /\ ~(~hasMoreItems \/ isLoading)
    /\ loadPending < MaxPending
    /\ isLoading' = TRUE
    /\ loadPending' = loadPending + 1
    /\ lastOp' = "loadMore"
    /\ UNCHANGED <<allApartments, displayedApartments, filteredApartments,
                   currentPage, error, sortBy, hasInitialized, rooms, filters,
                   storage, fetchPending, getApartmentsCalls, populated,
                   saved, run>>
    /\ UNCHANGED debounceVars

\* LoadMoreFinish that slices with the page number before the increment.
LoadMoreFinish_stalePage ==
    /\ loadPending > 0
    /\ loadPending' = loadPending - 1
    /\ currentPage' = currentPage + 1
    /\ displayedApartments' =
           slice(filteredApartments, currentPage * ITEMS_PER_PAGE)
    /\ isLoading' = FALSE
    /\ lastOp' = "loadMore"
    /\ run' = IF run >= 0 /\ run < MaxRun THEN run + 1 ELSE -1
    /\ UNCHANGED <<allApartments, filteredApartments, error, sortBy,
                   hasInitialized, rooms, filters, storage, fetchPending,
                   getApartmentsCalls, populated, saved>>
    /\ UNCHANGED debounceVars

LoadMoreFinish ==
    /\ loadPending > 0
    /\ loadPending' = loadPending - 1
    /\ currentPage' = currentPage + 1
    /\ displayedApartments' =
           slice(filteredApartments, currentPage' * ITEMS_PER_PAGE)
    /\ isLoading' = FALSE
    /\ lastOp' = "loadMore"
    /\ run' = IF run >= 0 /\ run < MaxRun THEN run + 1 ELSE -1
    /\ UNCHANGED <<allApartments, filteredApartments, error, sortBy,
                   hasInitialized, rooms, filters, storage, fetchPending,
                   getApartmentsCalls, populated, saved>>
    /\ UNCHANGED debounceVars

\* The mutators, store.ts:239-276.
SetSortBy(newSortBy) ==
    /\ sortBy' = newSortBy
    /\ UNCHANGED <<allApartments, filters>>
    /\ recomputeAndSave
    /\ run' = -1
    /\ UNCHANGED <<isLoading, error, hasInitialized, rooms, calls>>
    /\ UNCHANGED debounceVars

SetRoomsFilter(newRooms) ==
    /\ filters' = [filters EXCEPT !.rooms = newRooms,
                                  !.undef = @ \ {"rooms"}]
    /\ UNCHANGED <<allApartments, sortBy>>
    /\ recomputeAndSave
    /\ run' = -1
    /\ UNCHANGED <<isLoading, error, hasInitialized, rooms, calls>>
    /\ UNCHANGED debounceVars

\* ResetRooms that also empties filters.rooms and recomputes the lists.
ResetRooms_clearsFilter ==
    /\ rooms' = [v \in RoomValues |-> FALSE]
    /\ filters' = [filters EXCEPT !.rooms = <<>>, !.undef = @ \ {"rooms"}]
    /\ UNCHANGED <<allApartments, sortBy>>
    /\ applyFiltersAndSort
    /\ lastOp' = "resetRooms"
    /\ run' = -1
    /\ UNCHANGED <<isLoading, error, hasInitialized, storage, calls, saved>>
    /\ UNCHANGED debounceVars

ResetRooms ==
    /\ rooms' = [v \in RoomValues |-> FALSE]
    /\ lastOp' = "resetRooms"
    /\ run' = -1
    /\ UNCHANGED <<allApartments, displayedApartments, filteredApartments,
                   currentPage, isLoading, error, sortBy, hasInitialized,
                   filters, storage, calls, saved>>
    /\ UNCHANGED debounceVars

SetPriceRange(range) ==
    /\ filters' = [filters EXCEPT !.priceRange = range,
                                  !.undef = @ \ {"priceRange"}]
    /\ UNCHANGED <<allApartments, sortBy>>
    /\ recomputeAndSave
    /\ run' = -1
    /\ UNCHANGED <<isLoading, error, hasInitialized, rooms, calls>>
    /\ UNCHANGED debounceVars

SetSquareRange(range) ==
    /\ filters' = [filters EXCEPT !.squareRange = range,
                                  !.undef = @ \ {"squareRange"}]
    /\ UNCHANGED <<allApartments, sortBy>>
    /\ recomputeAndSave
    /\ run' = -1
    /\ UNCHANGED <<isLoading, error, hasInitialized, rooms, calls>>
    /\ UNCHANGED debounceVars

ResetFilters ==
    /\ filters' = DefaultFilters
    /\ sortBy' = "default"
    /\ UNCHANGED allApartments
    /\ recomputeAndSave
    /\ run' = -1
    /\ UNCHANGED <<isLoading, error, hasInitialized, rooms, calls>>
    /\ UNCHANGED debounceVars

\* reset, store.ts:278-293.
Reset ==
    /\ allApartments' = <<>>
    /\ displayedApartments' = <<>>
    /\ filteredApartments' = <<>>
    /\ currentPage' = 1
    /\ isLoading' = FALSE
    /\ error' = "null"
    /\ sortBy' = "default"
    /\ hasInitialized' = FALSE
    /\ filters' = DefaultFilters
    /\ saveFilters
    /\ lastOp' = "reset"
    /\ run' = -1
    /\ UNCHANGED <<rooms, calls>>
    /\ UNCHANGED debounceVars

Next ==
    \/ FetchSkip
    \/ FetchStart
    \/ \E data \in Datasets : FetchResolve(data)
    \/ FetchReject
    \/ LoadMoreSkip
    \/ LoadMoreStart
    \/ LoadMoreFinish
    \/ \E newSortBy \in SortInputs : SetSortBy(newSortBy)
    \/ \E newRooms \in RoomsInputs : SetRoomsFilter(newRooms)
    \/ ResetRooms
    \/ \E range \in PriceInputs : SetPriceRange(range)
    \/ \E range \in SquareInputs : SetSquareRange(range)
    \/ ResetFilters
    \/ Reset

Spec == Init /\ [][Next]_vars

\* The runs in which reset is never called and the fetch collaborator never
\* fails.
NextNoResetNoFail ==
    \/ FetchSkip
    \/ FetchStart
    \/ \E data \in Datasets : FetchResolve(data)
    \/ LoadMoreSkip
    \/ LoadMoreStart
    \/ LoadMoreFinish
    \/ \E newSortBy \in SortInputs : SetSortBy(newSortBy)
    \/ \E newRooms \in RoomsInputs : SetRoomsFilter(newRooms)
    \/ ResetRooms
    \/ \E range \in PriceInputs : SetPriceRange(range)
    \/ \E range \in SquareInputs : SetSquareRange(range)
    \/ ResetFilters

SpecNoResetNoFail == Init /\ [][NextNoResetNoFail]_vars

\* The runs that start with an absent slot or a well-formed payload in it.
InitWellFormed ==
    /\ Init
    /\ storage = SlotNull \/ WellFormed(storage)

SpecWellFormed == InitWellFormed /\ [][Next]_vars

----------------------------------------------------------------------------
\* The pure functions on their own: Init draws the inputs, one step applies
\* the function and leaves its result in filteredApartments.
PureApartments == {Data12[2], Data12[4], Data12[5], Data12[9]}

RECURSIVE SeqsUpTo(_, _)
SeqsUpTo(S, n) ==
    IF n = 0 THEN {<<>>}
    ELSE SeqsUpTo(S, n - 1) \cup
         {Append(q, x) : q \in {r \in SeqsUpTo(S, n - 1) : Len(r) = n - 1},
                         x \in S}

PureFilters ==
    {Filter(r, p, s) :
        r \in {<<>>, <<2>>, <<3, 1>>, <<0, 2>>},
        p \in {<<DEFAULT_PRICE_MIN, DEFAULT_PRICE_MAX>>, <<7500000, 12000000>>,
               <<12000000, 7500000>>},
        s \in {<<DEFAULT_SQUARE_MIN, DEFAULT_SQUARE_MAX>>, <<55, 60>>,
               <<34, 84>>}}

InitPure ==
    /\ allApartments \in SeqsUpTo(PureApartments, MaxLen)
    /\ displayedApartments = <<>>
    /\ filteredApartments = <<>>
    /\ currentPage = 1
    /\ isLoading = FALSE
    /\ error = "null"
    /\ hasInitialized = FALSE
    /\ rooms = InitialRooms
    /\ storage = SlotNull
    /\ fetchPending = 0
    /\ loadPending = 0
    /\ getApartmentsCalls = 0
    /\ populated = 0
    /\ saved = FALSE
    /\ run = -1
    /\ lastOp = "init"
    /\ debounceInit

pureFrame == <<allApartments, displayedApartments, currentPage, isLoading,
               error, sortBy, hasInitialized, rooms, filters, storage,
               fetchPending, loadPending, getApartmentsCalls, populated,
               saved, run>>

InitFilter ==
    /\ InitPure
    /\ filters \in PureFilters
    /\ sortBy = "default"

FilterStep ==
    /\ lastOp = "init"
    /\ filteredApartments' = filterApartments(allApartments, filters)
    /\ lastOp' = "filterApartments"
    /\ UNCHANGED pureFrame
    /\ UNCHANGED debounceVars

SpecFilter == InitFilter /\ [][FilterStep]_vars

InitSort ==
    /\ InitPure
    /\ filters = DefaultFilters
    /\ sortBy \in SortOptions

SortStep ==
    /\ lastOp = "init"
    /\ filteredApartments' = sortApartments(allApartments, sortBy)
    /\ lastOp' = "sortApartments"
    /\ UNCHANGED pureFrame
    /\ UNCHANGED debounceVars

SpecSort == InitSort /\ [][SortStep]_vars

\* applyFiltersAndSort on its own, run twice in a row.  It starts either
\* where fetchApartments calls it, with the dataset assigned and the lists
\* still empty, or where a mutator calls it, with the lists of the previous
\* filters and two pages displayed.
ApplyDatasets == SeqsUpTo(PureApartments, MaxLen) \cup {Data12}

ApplySorts == {"default", "price_asc", "floor_desc"}

InitApply ==
    /\ allApartments \in ApplyDatasets
    /\ filters \in PureFilters
    /\ sortBy \in ApplySorts
    /\ \/ /\ filteredApartments = <<>>
          /\ currentPage = 1
       \/ /\ Len(allApartments) > ITEMS_PER_PAGE
          /\ filteredApartments = allApartments
          /\ currentPage = 2
    /\ displayedApartments =
           slice(filteredApartments, currentPage * ITEMS_PER_PAGE)
    /\ isLoading = FALSE
    /\ error = "null"
    /\ hasInitialized = TRUE
    /\ rooms = InitialRooms
    /\ storage = SlotNull
    /\ fetchPending = 0
    /\ loadPending = 0
    /\ getApartmentsCalls = 0
    /\ populated = 0
    /\ saved = FALSE
    /\ run = -1
    /\ lastOp = "init"
    /\ debounceInit

ApplyStep ==
    /\ lastOp \in {"init", "applyFiltersAndSort"}
    /\ UNCHANGED <<allApartments, filters, sortBy>>
    /\ applyFiltersAndSort
    /\ lastOp' = IF lastOp = "init" THEN "applyFiltersAndSort"
                 ELSE "applyFiltersAndSort:again"
    /\ UNCHANGED <<isLoading, error, hasInitialized, rooms, storage, calls,
                   saved, run>>
    /\ UNCHANGED debounceVars

SpecApply == InitApply /\ [][ApplyStep]_vars

----------------------------------------------------------------------------
\* debounce, debounce/index.ts:1-17: one wrapper, made with the wait above.
\* The k-th call of the wrapper passes k as its argument, so an invocation of
\* func names the call that scheduled it, and the timer of the k-th call has
\* the id k.  A timer runs at the instant it is due, the oldest first, before
\* the clock moves on and before anything else calls the wrapper.
dueNow == {t \in timers : t.due <= clock}

firing == CHOOSE t \in dueNow : \A u \in dueNow : t.id <= u.id

\* clearTimeout(handle) on the pending timers T: a handle that names no
\* pending timer clears nothing.
clearTimeout(handle, T) == {t \in T : t.id # handle}

\* setTimeout(callback, wait) on the pending timers T, the callback being the
\* one of the call with the arguments args.
setTimeout(T, args) ==
    T \cup {[id |-> args, due |-> clock + wait, args |-> args]}

\* The pending timers after the body of the wrapper, debounce/index.ts:8-15,
\* has run with timeout = handle; the new value of timeout is the new id.
wrapperTimers(handle, T, args) ==
    setTimeout(IF handle # 0 THEN clearTimeout(handle, T) ELSE T, args)

debounceFrame == <<storeVars, calls, saved, run, lastOp>>

\* A call of the wrapper from outside func.
DebouncedCall ==
    /\ Len(callLog) < MaxCalls
    /\ dueNow = {}
    /\ timers' = wrapperTimers(timeout, timers, Len(callLog) + 1)
    /\ timeout' = Len(callLog) + 1
    /\ callLog' = Append(callLog, clock)
    /\ UNCHANGED <<clock, invocations, debounceFrame>>

\* The timer callback, debounce/index.ts:12-15, with a func that does not
\* call the wrapper.
TimerFires ==
    /\ dueNow # {}
    /\ timers' = timers \ {firing}
    /\ invocations' = Append(invocations, [at |-> clock, args |-> firing.args])
    /\ timeout' = 0
    /\ UNCHANGED <<clock, callLog, debounceFrame>>

\* The timer callback with a func that calls the wrapper once: the body of
\* the wrapper runs inside func, at line 13, and line 14 assigns null to
\* timeout after func has returned.
TimerFiresReentrant ==
    /\ dueNow # {}
    /\ Len(callLog) < MaxCalls
    /\ invocations' = Append(invocations, [at |-> clock, args |-> firing.args])
    /\ timers' = wrapperTimers(timeout, timers \ {firing}, Len(callLog) + 1)
    /\ callLog' = Append(callLog, clock)
    /\ timeout' = 0
    /\ UNCHANGED <<clock, debounceFrame>>

Tick ==
    /\ clock < MaxClock
    /\ dueNow = {}
    /\ clock' = clock + 1
    /\ UNCHANGED <<timeout, timers, callLog, invocations, debounceFrame>>

InitDebounce ==
    /\ Init
    /\ storage = SlotNull

NextDebounce ==
    \/ DebouncedCall
    \/ TimerFires
    \/ TimerFiresReentrant
    \/ Tick

SpecDebounce == InitDebounce /\ [][NextDebounce]_vars

----------------------------------------------------------------------------
\* The claims.

Elements(seq) == {seq[i] : i \in 1..Len(seq)}

\* C1: after a successful fetchApartments followed by run completed loadMore
\* calls, one after another and with no other store action in between,
\* displayedApartments is the first min((run + 1) * itemsPerPage, n) elements
\* of filteredApartments, n its length, and hasMoreItems is true exactly when
\* that number is less than n.
C1_RevealedLength == Min((run + 1) * ITEMS_PER_PAGE, Len(filteredApartments))

C1_LoadMoreWindow ==
    run >= 0 =>
        /\ displayedApartments = SubSeq(filteredApartments, 1, C1_RevealedLength)
        /\ hasMoreItems <=> C1_RevealedLength < Len(filteredApartments)

\* C2: filterApartments(D) is the subsequence of D, in the order of D and with
\* D unchanged, of the apartments that pass the room, price and square
\* conditions of the filter state.
C2_Passes(a, F) ==
    /\ F.rooms = <<>> \/ extractRoomsCount(a.title) \in Elements(F.rooms)
    /\ F.priceRange[1] <= a.price /\ a.price <= F.priceRange[2]
    /\ F.squareRange[1] <= a.square /\ a.square <= F.squareRange[2]

C2_IsSubsequenceOf(R, D, F) ==
    LET kept == {i \in 1..Len(D) : C2_Passes(D[i], F)}
        nth(j) == CHOOSE i \in kept : Cardinality({k \in kept : k <= i}) = j
    IN  /\ Len(R) = Cardinality(kept)
        /\ \A j \in 1..Len(R) : R[j] = D[nth(j)]

C2_FilterIsSubsequence ==
    [][lastOp' = "filterApartments" =>
          /\ allApartments' = allApartments
          /\ C2_IsSubsequenceOf(filteredApartments', allApartments, filters)]_vars

\* A filter that keeps the first and the third of three apartments, the kept
\* ones on the bounds of the price range.
C2_Witness ==
    /\ lastOp = "filterApartments"
    /\ Len(allApartments) = 3
    /\ filteredApartments = <<allApartments[1], allApartments[3]>>
    /\ allApartments[1].price = filters.priceRange[1]
    /\ allApartments[1].id # allApartments[3].id
    /\ filters.rooms # <<>>

\* C3: sortApartments(D, S) is a permutation of D, ordered by the key of S
\* (the order of D for "default"), and elements with equal keys keep the order
\* they have in D.
C3_Key(S, a) ==
    CASE S = "default"     -> 0
      [] S = "price_asc"   -> a.price
      [] S = "price_desc"  -> 0 - a.price
      [] S = "square_asc"  -> a.square
      [] S = "square_desc" -> 0 - a.square
      [] S = "floor_asc"   -> a.floor
      [] S = "floor_desc"  -> 0 - a.floor

C3_IsStableSortOf(R, D, S) ==
    /\ Len(R) = Len(D)
    /\ \E p \in [1..Len(D) -> 1..Len(D)] :
          /\ \A i, j \in 1..Len(D) : i # j => p[i] # p[j]
          /\ \A i \in 1..Len(D) : R[i] = D[p[i]]
          /\ \A i, j \in 1..Len(D) :
                i < j =>
                    /\ C3_Key(S, R[i]) <= C3_Key(S, R[j])
                    /\ C3_Key(S, R[i]) = C3_Key(S, R[j]) => p[i] < p[j]

C3_SortIsStablePermutation ==
    lastOp = "sortApartments" =>
        C3_IsStableSortOf(filteredApartments, allApartments, sortBy)

\* A descending sort that moves an element forward and keeps a tie in order.
C3_Witness ==
    /\ lastOp = "sortApartments"
    /\ sortBy = "price_desc"
    /\ Len(allApartments) = 3
    /\ allApartments[1].price = allApartments[2].price
    /\ allApartments[1].id # allApartments[2].id
    /\ allApartments[3].price > allApartments[1].price
    /\ filteredApartments =
           <<allApartments[3], allApartments[1], allApartments[2]>>

\* C4: at most one loadMore call is in flight.
C4_OneLoadMoreInFlight == loadPending <= 1

\* C5: with no reset and no failure of the collaborator, allApartments is
\* populated once and the collaborator is invoked once, however many
\* fetchApartments calls are made.
C5_FetchedOnce == getApartmentsCalls <= 1 /\ populated <= 1

\* C6: a fetchApartments call made while allApartments is non-empty does not
\* invoke the collaborator and changes no state of the store nor the slot.
C6_FetchSkipFrame ==
    [][(lastOp' \in {"fetchApartments:skip", "fetchApartments:await"}
          /\ Len(allApartments) > 0) =>
            UNCHANGED <<storeVars, getApartmentsCalls, fetchPending>>]_vars

C6_Witness ==
    /\ lastOp = "fetchApartments:skip"
    /\ Len(allApartments) > 0
    /\ getApartmentsCalls = 1

\* C7: a fetchApartments call that finishes with a failure recorded in error
\* leaves allApartments empty and isLoading false.
C7_FailureLeavesRetryable ==
    lastOp \in {"fetchApartments:threw", "fetchApartments:rejected"} =>
        /\ allApartments = <<>>
        /\ isLoading = FALSE

\* C8: a successful fetchApartments with a well-formed payload in the slot
\* leaves filters and sortBy equal to the payload's, every room option active
\* exactly when the payload's rooms hold its value, and the lists computed
\* from the restored filters and sort.
C8_RestoresPayload ==
    (lastOp = "fetchApartments:ok" /\ WellFormed(storage)) =>
        /\ filters.undef = {}
        /\ filters.rooms = storage.rooms
        /\ filters.priceRange = storage.priceRange
        /\ filters.squareRange = storage.squareRange
        /\ sortBy = storage.sortBy
        /\ \A v \in RoomValues : rooms[v] <=> v \in Elements(storage.rooms)
        /\ filteredApartments =
               sortApartments(filterApartments(allApartments, filters), sortBy)
        /\ displayedApartments =
               SubSeq(filteredApartments, 1,
                      Min(ITEMS_PER_PAGE, Len(filteredApartments)))

\* C9: after a fetchApartments whose collaborator succeeds, whatever the slot
\* holds, no field of filters is missing, error is null and
\* filteredApartments is the filtered and sorted dataset.
C9_RestoreFallsBack ==
    lastOp \in {"fetchApartments:ok", "fetchApartments:threw"} =>
        /\ filters.undef = {}
        /\ error = "null"
        /\ filteredApartments =
               sortApartments(filterApartments(allApartments, filters), sortBy)

\* C10: once a mutating action has completed, the slot holds the in-memory
\* filters and sortBy.
C10_PersistedTracksMemory ==
    saved =>
        /\ storage.kind = "object"
        /\ storage.keys = {"filters", "sortBy"}
        /\ storage.sortBy = sortBy
        /\ storage.fkeys = FilterFields \ filters.undef
        /\ storage.rooms = filters.rooms
        /\ storage.priceRange = filters.priceRange
        /\ storage.squareRange = filters.squareRange

\* C11: immediately after reset every state field, the room options' active
\* flags included, has the value it has in a freshly created store, and the
\* persisted slot is cleared.
C11_ResetIsPristine ==
    lastOp = "reset" =>
        /\ allApartments = <<>>
        /\ filteredApartments = <<>>
        /\ displayedApartments = <<>>
        /\ currentPage = 1
        /\ isLoading = FALSE
        /\ error = "null"
        /\ hasInitialized = FALSE
        /\ filters = DefaultFilters
        /\ sortBy = "default"
        /\ rooms = InitialRooms
        /\ storage = SlotNull

\* C13: a fetchApartments call that has just finished, with or without a
\* failure, has cleared isLoading, and in every state in which no
\* fetchApartments and no loadMore call is in flight isLoading is false.
C13_LoadingNotStuck ==
    /\ lastOp \in {"fetchApartments:ok", "fetchApartments:threw",
                   "fetchApartments:rejected"} => isLoading = FALSE
    /\ (fetchPending = 0 /\ loadPending = 0) => isLoading = FALSE

\* The collaborator has failed and nothing is in flight any more.
C13_Witness ==
    /\ lastOp = "fetchApartments:rejected"
    /\ error = "FetchError"
    /\ fetchPending = 0
    /\ loadPending = 0
    /\ isLoading = FALSE

\* C14: resetRooms makes every room option inactive and changes nothing else:
\* the dataset, filters, sortBy, the lists, currentPage, isLoading, error,
\* hasInitialized and the slot are the same after it as before.
C14_ResetRoomsFrame ==
    [][lastOp' = "resetRooms" =>
          /\ \A v \in RoomValues : rooms'[v] = FALSE
          /\ UNCHANGED <<allApartments, displayedApartments,
                         filteredApartments, currentPage, isLoading, error,
                         sortBy, hasInitialized, filters, storage>>]_vars

\* resetRooms with a room filter in force: the flags are all false while
\* filters.rooms, the slot and the filtered list still carry the filter.
C14_Witness ==
    /\ lastOp = "resetRooms"
    /\ \A v \in RoomValues : rooms[v] = FALSE
    /\ filters.rooms = RoomsPayload
    /\ storage.rooms = RoomsPayload
    /\ Len(allApartments) > 0
    /\ Len(filteredApartments) > 0
    /\ Len(filteredApartments) < Len(allApartments)

\* C16: with an absent or well-formed payload in the slot, in every state
\* filteredApartments is the dataset filtered by the current filters and
\* sorted by the current sortBy.
C16_DerivedListFresh ==
    filteredApartments =
        sortApartments(filterApartments(allApartments, filters), sortBy)

\* C17: in every state displayedApartments is the prefix of
\* filteredApartments of length min(currentPage * itemsPerPage, n), n the
\* length of filteredApartments.
C17_DisplayedIsPrefix ==
    displayedApartments =
        SubSeq(filteredApartments, 1,
               Min(currentPage * ITEMS_PER_PAGE, Len(filteredApartments)))

\* A loadMore has completed after a mutator shortened the filtered list
\* during its delay: the page number is past the list and the whole list is
\* displayed.
C17_Witness ==
    /\ lastOp = "loadMore"
    /\ loadPending = 0
    /\ currentPage = 2
    /\ Len(filteredApartments) > 0
    /\ Len(filteredApartments) < ITEMS_PER_PAGE
    /\ displayedApartments = filteredApartments
    /\ Len(allApartments) > ITEMS_PER_PAGE

\* C18: in every state 1 <= currentPage <= max(1, totalPages).
C18_PageInRange ==
    /\ 1 <= currentPage
    /\ currentPage <= (IF totalPages > 1 THEN totalPages ELSE 1)

\* C19: while a fetchApartments call awaits the collaborator or a loadMore
\* call waits in its delay, isLoading is true, and hasNoData is false while
\* a fetch is in flight.
C19_LoadingWhileInFlight ==
    /\ (fetchPending > 0 \/ loadPending > 0) => isLoading = TRUE
    /\ fetchPending > 0 => ~hasNoData

\* C15: a second run of applyFiltersAndSort right after a first one leaves
\* filteredApartments, displayedApartments and currentPage as the first run
\* left them, and a run on an empty dataset changes nothing.
C15_ApplyIdempotent ==
    [][/\ (lastOp' = "applyFiltersAndSort:again") =>
              UNCHANGED <<filteredApartments, displayedApartments,
                          currentPage>>
       /\ (lastOp' \in {"applyFiltersAndSort", "applyFiltersAndSort:again"}
             /\ Len(allApartments) = 0) => UNCHANGED storeVars]_vars

\* The second run on a dataset of more than one page, sorted and with two
\* pages displayed before the first run.
C15_Witness ==
    /\ lastOp = "applyFiltersAndSort:again"
    /\ Len(filteredApartments) > ITEMS_PER_PAGE
    /\ Len(displayedApartments) = ITEMS_PER_PAGE
    /\ currentPage = 1
    /\ sortBy = "price_asc"
    /\ filteredApartments # allApartments
    /\ filteredApartments =
           sortApartments(filterApartments(allApartments, filters), sortBy)

\* C12: of the calls of a burst, each less than wait after the one before,
\* only the last one is followed by an invocation of func: func is invoked
\* with the arguments of a call only if that call is the last of its burst,
\* then exactly wait after it, and once wait has passed since the last call
\* of a burst func has been invoked exactly once with its arguments.
C12_LastOfBurst(i) ==
    i = Len(callLog) \/ callLog[i + 1] - callLog[i] >= wait

C12_InvocationsOf(i) ==
    {k \in 1..Len(invocations) : invocations[k].args = i}

C12_BurstRunsOnceTrailing ==
    /\ \A k \in 1..Len(invocations) :
          /\ invocations[k].args \in 1..Len(callLog)
          /\ C12_LastOfBurst(invocations[k].args)
          /\ invocations[k].at = callLog[invocations[k].args] + wait
    /\ \A i \in 1..Len(callLog) :
          /\ Cardinality(C12_InvocationsOf(i)) <= 1
          /\ (C12_LastOfBurst(i) /\ callLog[i] + wait <= clock /\ dueNow = {})
                => Cardinality(C12_InvocationsOf(i)) = 1

\* C20: at every moment at most one call scheduled by the wrapper is pending.
C20_OnePendingTimer == Cardinality(timers) <= 1

====
